---- MODULE Spec2Model ----
(***************************************************************************)
(* Model of the ticket assignment engine                                   *)
(* (ticket_ai_agents/assignment_engine/customized_assignment_engine.py)    *)
(* and of the webhook gateway of the ingestion service                     *)
(* (ticket-ingestion-service/app/api/routes.py, core/publisher.py).        *)
(*                                                                         *)
(* Spec runs the engine over everyday inputs, SpecEdge over inputs at the  *)
(* edges (wire priority labels, twin members in either order, the minutes  *)
(* at the ends of the IST window, failing oracles), SpecGateway runs the   *)
(* gateway.                                                                *)
(*                                                                         *)
(* Numbers.  The engine computes with floats in [0,1].  Sub-scores are     *)
(* represented here as integers in units of 1/Scale, the weights of the    *)
(* weight matrix in hundredths, and final scores therefore in units of     *)
(* 1/(100*Scale).  Similarity scores of similar tickets are hundredths.    *)
(* Clock readings are minutes of the UTC day (hour*60 + minute).           *)
(*                                                                         *)
(* The arithmetic of the model is exact.  The engine's doubles agree with  *)
(* it except where two final scores are equal, or differ by exactly 0.15   *)
(* or 0.30, in exact arithmetic: there the rounding of the double sums     *)
(* decides the comparison in the engine.                                   *)
(***************************************************************************)
EXTENDS Integers, Sequences, FiniteSets, TLC

\* ------------------------------------------------------------------ bounds
MaxMembers == 2
MaxSimilar == 3
MaxRuns == 2

\* ------------------------------------------------------- numeric encoding
\* 1.0 of a score component; divisible by 100, by 30000 and by 1..6
Scale == 100 * 12000
Pct(p) == p * (Scale \div 100)
\* 1.0 of a final (weighted) score
FinalOne == 100 * Scale

Min(a, b) == IF a < b THEN a ELSE b
Max(a, b) == IF a > b THEN a ELSE b

None == "None"

\* ------------------------------------------------------- class constants
IST_START_UTC == 150
IST_END_UTC == 870
MORNING_OVERLAP_START_UTC == 30
MORNING_OVERLAP_END_UTC == 150
EVENING_OVERLAP_START_UTC == 720
EVENING_OVERLAP_END_UTC == 870
SIMILARITY_THRESHOLD == 70
TEAM_MAX_LOAD == 30

\* variant: the Critical row after raising timezone to 0.40 without rebalancing
_load_weight_config_unbalanced ==
  [ Critical |-> [similarity |-> 25, skill |-> 15, availability |-> 15, workload |-> 10, timezone |-> 40],
    High     |-> [similarity |-> 25, skill |-> 15, availability |-> 15, workload |-> 15, timezone |-> 30],
    Medium   |-> [similarity |-> 20, skill |-> 25, availability |-> 20, workload |-> 20, timezone |-> 15],
    Low      |-> [similarity |-> 15, skill |-> 15, availability |-> 15, workload |-> 40, timezone |-> 15] ]

\* weight matrix, in hundredths
_load_weight_config ==
  [ Critical |-> [similarity |-> 25, skill |-> 15, availability |-> 15, workload |-> 10, timezone |-> 35],
    High     |-> [similarity |-> 25, skill |-> 15, availability |-> 15, workload |-> 15, timezone |-> 30],
    Medium   |-> [similarity |-> 20, skill |-> 25, availability |-> 20, workload |-> 20, timezone |-> 15],
    Low      |-> [similarity |-> 15, skill |-> 15, availability |-> 15, workload |-> 40, timezone |-> 15] ]

\* dict.get(key, default) on a record used as a dict
DictGet(d, key, default) == IF key \in DOMAIN d THEN d[key] ELSE default

\* ------------------------------------------------------------- strings
\* "sub in tz" for the timezone names and the prefixes the engine tests
StrContains(tz, sub) ==
  <<tz, sub>> \in { <<"Asia/Kolkata", "Asia/">>, <<"Asia/Kolkata", "Asia/Kolkata">>,
                    <<"America/New_York", "America/">>,
                    <<"US/Pacific", "US/">> }

\* str.lower().strip() on the skill names of the model
LowerStrip(s) ==
  CASE s = "AWS" -> "aws"
    [] s = " aws " -> "aws"
    [] s = "S3" -> "s3"
    [] OTHER -> s

RECURSIVE SumSeq(_)
SumSeq(s) == IF s = <<>> THEN 0 ELSE Head(s) + SumSeq(Tail(s))

SeqMap(Op(_), s) == [i \in 1..Len(s) |-> Op(s[i])]

\* ------------------------------------------------------ similarity score
\* min(math.log(n + 1) / math.log(6), 1.0), rounded to 10/Scale
ExpertiseFactor(n) ==
  CASE n = 1 -> 464220
    [] n = 2 -> 735780
    [] n = 3 -> 928450
    [] n = 4 -> 1077890
    [] OTHER -> Scale

SimScoreOf(t) == t.similarity_score

_calculate_similarity_score(member, similar_tickets) ==
  LET member_similar == SelectSeq(similar_tickets, LAMBDA t : t.assignee_email = member.email)
      solved_count == Len(member_similar)
      avg_similarity == (SumSeq(SeqMap(SimScoreOf, member_similar)) * (Scale \div 100)) \div solved_count
      similarity_score == (3 * ExpertiseFactor(solved_count) + 7 * avg_similarity) \div 10
  IN IF member_similar = <<>> THEN 0 ELSE Min(similarity_score, Scale)

\* ----------------------------------------------------------- skill match
DefaultSkills == <<"troubleshooting", "documentation">>

RECURSIVE Dedup(_, _)
Dedup(s, seen) ==
  IF s = <<>> THEN <<>>
  ELSE IF Head(s) \in seen THEN Dedup(Tail(s), seen)
       ELSE <<Head(s)>> \o Dedup(Tail(s), seen \cup {Head(s)})

_get_member_skills(member) ==
  IF member.skills = <<>> THEN DefaultSkills
  ELSE LET skills == SeqMap(LowerStrip, SelectSeq(member.skills, LAMBDA n : n # ""))
           unique_skills == Dedup(skills, {})
       IN IF unique_skills # <<>> THEN unique_skills ELSE DefaultSkills

Range(s) == {s[i] : i \in 1..Len(s)}

\* sum(1.0 for skill in wanted if skill in member_skills) / max(len(wanted), 1)
MatchRatio(wanted, member_skills) ==
  (Len(SelectSeq(wanted, LAMBDA sk : sk \in Range(member_skills))) * Scale) \div Max(Len(wanted), 1)

_calculate_skill_match_score_cached(member, skill_requirements) ==
  LET critical_skills == skill_requirements.critical_skills
      important_skills == skill_requirements.important_skills
      nice_to_have == skill_requirements.nice_to_have
      member_skills == _get_member_skills(member)
      critical_match == MatchRatio(critical_skills, member_skills)
      important_match == IF important_skills # <<>> THEN MatchRatio(important_skills, member_skills)
                         ELSE Scale \div 2
      nice_match == IF nice_to_have # <<>> THEN MatchRatio(nice_to_have, member_skills)
                    ELSE Scale \div 2
      skill_match_score == (6 * critical_match + 3 * important_match + 1 * nice_match) \div 10
  IN IF 2 * critical_match < Scale /\ critical_skills # <<>> THEN Pct(20)
     ELSE Min(skill_match_score, Scale)

\* ---------------------------------------------------------- availability
\* variant: the global-holiday override tested before the regional holiday
_calculate_availability_score_global_first(pto_status, regional_holiday, global_holiday, ticket_priority) ==
  LET priority_override == [Critical |-> Pct(50), High |-> Pct(30), Medium |-> 0, Low |-> 0]
      score == DictGet(priority_override, ticket_priority, 0)
  IN IF pto_status THEN
       [score |-> 0, available |-> FALSE, reason |-> "On PTO/TimeOff"]
     ELSE IF global_holiday /\ score > 0 THEN
       [score |-> score, available |-> TRUE, reason |-> "Global holiday (emergency override)"]
     ELSE IF regional_holiday THEN
       [score |-> 0, available |-> FALSE, reason |-> "Regional public holiday"]
     ELSE IF global_holiday THEN
       [score |-> 0, available |-> FALSE, reason |-> "Global holiday (can wait)"]
     ELSE [score |-> Scale, available |-> TRUE, reason |-> "Available"]

_calculate_availability_score_optimized(pto_status, regional_holiday, global_holiday, ticket_priority) ==
  IF pto_status THEN
    [score |-> 0, available |-> FALSE, reason |-> "On PTO/TimeOff"]
  ELSE IF regional_holiday THEN
    [score |-> 0, available |-> FALSE, reason |-> "Regional public holiday"]
  ELSE IF global_holiday THEN
    LET priority_override == [Critical |-> Pct(50), High |-> Pct(30), Medium |-> 0, Low |-> 0]
        score == DictGet(priority_override, ticket_priority, 0)
    IN IF score > 0
       THEN [score |-> score, available |-> TRUE, reason |-> "Global holiday (emergency override)"]
       ELSE [score |-> 0, available |-> FALSE, reason |-> "Global holiday (can wait)"]
  ELSE [score |-> Scale, available |-> TRUE, reason |-> "Available"]

\* -------------------------------------------------------------- workload
\* one ticket's load in thousandths: priority_weight * age_penalty * status_weight
TicketLoad(ticket) ==
  LET priority_weights == [Critical |-> 30, High |-> 20, Medium |-> 10, Low |-> 5]
      priority_weight == DictGet(priority_weights, ticket.priority, 10)
      age_penalty == IF ticket.age_days > 7 THEN 15
                     ELSE IF ticket.age_days > 3 THEN 12 ELSE 10
      status_weight == IF ticket.status \in {"Blocked", "Waiting"} THEN 3
                       ELSE IF ticket.status = "In Progress" THEN 10 ELSE 5
  IN priority_weight * age_penalty * status_weight

_calculate_workload_score_optimized(active_tickets) ==
  LET effective_workload == SumSeq(SeqMap(TicketLoad, active_tickets))
      workload_score == Max(0, Scale - (effective_workload * (Scale \div 1000)) \div TEAM_MAX_LOAD)
      is_overloaded == 10 * effective_workload >= 1000 * TEAM_MAX_LOAD * 8
  IN IF active_tickets = <<>>
     THEN [score |-> Scale, weighted_workload |-> 0, is_overloaded |-> FALSE]
     ELSE [score |-> Min(workload_score, Scale), weighted_workload |-> effective_workload,
           is_overloaded |-> is_overloaded]

\* -------------------------------------------------------------- timezone
\* the base score of the window the clock is in, for the member's zone
BaseTimezoneScore(is_ist, is_us, in_morning_overlap, in_evening_overlap, current_hour_utc) ==
  IF in_morning_overlap THEN
    (IF is_ist THEN Pct(85) ELSE IF is_us THEN Pct(100) ELSE Pct(60))
  ELSE IF in_evening_overlap THEN
    (IF is_ist THEN Pct(100) ELSE IF is_us THEN Pct(85) ELSE Pct(60))
  ELSE IF IST_START_UTC <= current_hour_utc /\ current_hour_utc < EVENING_OVERLAP_START_UTC THEN
    (IF is_ist THEN Pct(100) ELSE IF is_us THEN Pct(50) ELSE Pct(40))
  ELSE
    (IF is_us THEN Pct(100) ELSE IF is_ist THEN Pct(50) ELSE Pct(40))

\* variant: only the 0.5 base is reduced for Critical and High tickets
StrictTimezoneScore_half_only(priority, base) ==
  IF priority \in {"Critical", "High"} THEN
    (IF base = Pct(50) THEN Pct(30) ELSE base)
  ELSE base

\* stricter penalties for Critical and High tickets
StrictTimezoneScore(priority, base) ==
  IF priority \in {"Critical", "High"} THEN
    (IF base = Pct(50) THEN Pct(30) ELSE IF base = Pct(40) THEN Pct(20) ELSE base)
  ELSE base

\* the adjustment for a member who solved 3 or more of the similar tickets
ExpertiseTimezoneScore(priority, solved_similar_count, in_overlap, strict) ==
  IF solved_similar_count >= 3 THEN
    IF priority \in {"Medium", "Low"} THEN
      IF in_overlap THEN
        (IF strict < Pct(85) THEN Pct(85) ELSE strict)
      ELSE IF strict >= Pct(75) THEN strict
      ELSE Pct(40)
    ELSE IF priority \in {"Critical", "High"} THEN
      (IF strict < Pct(60) /\ strict >= Pct(30) THEN Pct(60) ELSE strict)
    ELSE strict
  ELSE strict

_calculate_timezone_score(member, ticket_details, solved_similar_count, current_hour_utc) ==
  LET member_tz == member.timezone
      is_ist == StrContains(member_tz, "Asia/Kolkata") \/ StrContains(member_tz, "Asia/")
      is_us == StrContains(member_tz, "America/") \/ StrContains(member_tz, "US/")
      in_morning_overlap == MORNING_OVERLAP_START_UTC <= current_hour_utc
                            /\ current_hour_utc < MORNING_OVERLAP_END_UTC
      in_evening_overlap == EVENING_OVERLAP_START_UTC <= current_hour_utc
                            /\ current_hour_utc < EVENING_OVERLAP_END_UTC
      priority == DictGet(ticket_details, "priority", None)
  IN ExpertiseTimezoneScore(
       priority, solved_similar_count, in_morning_overlap \/ in_evening_overlap,
       StrictTimezoneScore(
         priority,
         BaseTimezoneScore(is_ist, is_us, in_morning_overlap, in_evening_overlap, current_hour_utc)))

_get_preferred_timezone(current_hour_utc) ==
  IF IST_START_UTC <= current_hour_utc /\ current_hour_utc <= IST_END_UTC THEN "IST" ELSE "US"

_check_timezone_match(candidate, preferred) ==
  LET is_ist == StrContains(candidate.timezone, "Asia/")
      is_us == StrContains(candidate.timezone, "America/") \/ StrContains(candidate.timezone, "US/")
  IN IF preferred = "IST" THEN is_ist
     ELSE IF preferred = "US" THEN is_us
     ELSE FALSE

\* ---------------------------------------------------- candidate evaluation
\* variant: the count of similar tickets the member solved is stored
SolvedSimilarCount_stored(member, similar_tickets) ==
  Len(SelectSeq(similar_tickets, LAMBDA t : t.assignee_email = member.email))

\* AssignmentCandidate.solved_similar_count keeps its dataclass default: the
\* engine never stores the member's count of solved similar tickets in it
SolvedSimilarCount(member, similar_tickets) == 0

\* the AssignmentCandidate _evaluate_candidate_optimized builds from the scores
AssignmentCandidate(data, weights, availability_data, workload_data, similarity_score, skill_match_score, solved_similar_count, timezone_score) ==
  [ member_id |-> data.member.id,
    member_email |-> data.member.email,
    timezone |-> data.member.timezone,
    similarity_score |-> similarity_score,
    skill_match_score |-> skill_match_score,
    availability_score |-> availability_data.score,
    workload_score |-> workload_data.score,
    timezone_score |-> timezone_score,
    final_score |-> similarity_score * weights.similarity
                    + skill_match_score * weights.skill
                    + availability_data.score * weights.availability
                    + workload_data.score * weights.workload
                    + timezone_score * weights.timezone,
    solved_similar_count |-> solved_similar_count,
    active_tickets_count |-> Len(data.active_tickets_details),
    recent_assignments_count |-> data.recent_assignments_count,
    weighted_workload |-> workload_data.weighted_workload,
    notes |-> <<availability_data.reason>>,
    is_overloaded |-> workload_data.is_overloaded ]

_evaluate_candidate_optimized(data, ticket_details, similar_tickets, weights, skill_requirements, current_hour_utc) ==
  AssignmentCandidate(
    data, weights,
    _calculate_availability_score_optimized(
      data.pto_status, data.regional_holiday, data.global_holiday,
      DictGet(ticket_details, "priority", "Medium")),
    _calculate_workload_score_optimized(data.active_tickets_details),
    _calculate_similarity_score(data.member, similar_tickets),
    _calculate_skill_match_score_cached(data.member, skill_requirements),
    SolvedSimilarCount(data.member, similar_tickets),
    _calculate_timezone_score(data.member, ticket_details,
                              SolvedSimilarCount(data.member, similar_tickets), current_hour_utc))

\* the (regional, global) pair of _is_public_holiday for a region
_is_public_holiday(region, holidays) == <<holidays[region], holidays.GLOBAL>>

\* the dict of _batch_fetch_member_data, as a sequence in insertion order
_batch_fetch_member_data(oracle) ==
  LET Row(m) ==
        LET member_region == IF StrContains(m.member.timezone, "Asia/") THEN "India" ELSE "US"
            holiday == _is_public_holiday(member_region, oracle.holidays)
        IN [ member |-> m.member,
             pto_status |-> m.on_pto,
             regional_holiday |-> holiday[1],
             global_holiday |-> holiday[2],
             active_tickets_details |-> m.active_tickets,
             recent_assignments_count |-> m.recent_assignments ]
  IN SeqMap(Row, oracle.members)

\* the session.execute calls of one _batch_fetch_member_data: the member
\* query alone for an empty team, else the four batch queries and the one
\* _is_public_holiday issues for each member of the loop
HolidayExecutes(oracle) == Len(oracle.members)

SessionExecutes(oracle) ==
  IF oracle.members = <<>> THEN 1 ELSE 4 + HolidayExecutes(oracle)

\* each candidate's _calculate_timezone_score reads the wall clock itself:
\* eval is the reading of the first candidate, eval_rest that of the later
_evaluate_all_candidates(weight_config, ticket_details, similar_tickets, ticket_priority, oracle, clock) ==
  LET member_data == _batch_fetch_member_data(oracle)
  IN [ i \in 1..Len(member_data) |->
         _evaluate_candidate_optimized(
           member_data[i], ticket_details, similar_tickets,
           DictGet(weight_config, ticket_priority, weight_config["Medium"]),
           oracle.skill_requirements, IF i = 1 THEN clock.eval ELSE clock.eval_rest) ]

\* ---------------------------------------------------------------- ranking
\* list.sort(key=final_score, reverse=True): stable, descending
RECURSIVE InsertDesc(_, _)
InsertDesc(c, sorted) ==
  IF sorted = <<>> THEN <<c>>
  ELSE IF c.final_score > Head(sorted).final_score THEN <<c>> \o sorted
       ELSE <<Head(sorted)>> \o InsertDesc(c, Tail(sorted))

RECURSIVE SortCandidates(_)
SortCandidates(cs) ==
  IF cs = <<>> THEN <<>>
  ELSE InsertDesc(cs[Len(cs)], SortCandidates(SubSeq(cs, 1, Len(cs) - 1)))

\* ------------------------------------------------------------------ state
VARIABLES
  weight_config,   \* AssignmentEngine.weight_config, set by __init__
  ticket,          \* ticket_details of the calls
  similar,         \* similar_tickets of the calls
  oracle,          \* what the database and the skill extractor answer
  clock,           \* the UTC readings datetime.now() returns during a call
  state,           \* the session state dict passed to assign_ticket
  decisions,       \* the AssignmentDecision each call returned, in call order
  trace,           \* what the last call did before it returned
  gateway          \* the ingestion service: responses sent, tasks queued, publishes

vars == <<weight_config, ticket, similar, oracle, clock, state, decisions, trace, gateway>>

\* --------------------------------------------------------------- decisions
\* variant: a list default shared by all decisions, so that a decision
\* starts from what the previous one appended
SharedList ==
  IF decisions = <<>> THEN <<>> ELSE decisions[Len(decisions)].business_rules_applied

\* the empty list __post_init__ gives a decision for each list left unset
FreshList == <<>>

AssignmentDecision(assignment_type, ticket_id, all_candidates, assigned_at) ==
  [ assignment_type |-> assignment_type,
    primary_assignee |-> None,
    secondary_assignee |-> None,
    confidence_score |-> 0,
    all_candidates |-> all_candidates,
    reasoning |-> FreshList,
    business_rules_applied |-> FreshList,
    human_review_triggers |-> FreshList,
    collaboration_needed |-> FALSE,
    ticket_id |-> ticket_id,
    assigned_at |-> assigned_at ]

\* variant: the trigger is built but never appended to the decision
_trigger_human_review_unrecorded(ticket_details, reason, severity, now) ==
  LET decision == AssignmentDecision("human_review", DictGet(ticket_details, "ticket_id", None), <<>>, now)
  IN [decision EXCEPT !.reasoning = Append(@, "Human review triggered")]

\* variant: a medium trigger gets the action and timeout of a high one
_trigger_human_review_medium_as_high(ticket_details, reason, severity, now) ==
  LET decision == AssignmentDecision("human_review", DictGet(ticket_details, "ticket_id", None), <<>>, now)
      base == [ reason |-> reason, severity |-> severity,
                ticket_id |-> DictGet(ticket_details, "ticket_id", None),
                ticket_title |-> DictGet(ticket_details, "title", None) ]
      trigger ==
        IF severity = "critical" THEN
          base @@ [action |-> "immediate_manager_escalation",
                   message |-> "Team at capacity or critical issue requires immediate attention"]
        ELSE IF severity \in {"high", "medium"} THEN
          base @@ [action |-> "team_consultation_email", timeout |-> "1 hour",
                   message |-> "No similar pattern found - team input needed"]
        ELSE base
  IN [decision EXCEPT !.human_review_triggers = Append(@, trigger),
                      !.reasoning = Append(@, "Human review triggered")]

_trigger_human_review(ticket_details, reason, severity, now) ==
  LET decision == AssignmentDecision("human_review", DictGet(ticket_details, "ticket_id", None), <<>>, now)
      base == [ reason |-> reason, severity |-> severity,
                ticket_id |-> DictGet(ticket_details, "ticket_id", None),
                ticket_title |-> DictGet(ticket_details, "title", None) ]
      trigger ==
        IF severity = "critical" THEN
          base @@ [action |-> "immediate_manager_escalation",
                   message |-> "Team at capacity or critical issue requires immediate attention"]
        ELSE IF severity = "high" THEN
          base @@ [action |-> "team_consultation_email", timeout |-> "1 hour",
                   message |-> "No similar pattern found - team input needed"]
        ELSE IF severity = "medium" THEN
          base @@ [action |-> "team_lead_review", timeout |-> "15 minutes",
                   message |-> "Low confidence assignment - team lead review requested"]
        ELSE base
  IN [decision EXCEPT !.human_review_triggers = Append(@, trigger),
                      !.reasoning = Append(@, "Human review triggered")]

\* variant: timezone_match is left out and the sum divided by 4
_calculate_confidence_four_factors(top_candidate, all_candidates) ==
  LET high_similarity == top_candidate.similarity_score > Pct(70)
      strong_skills == 2 * top_candidate.skill_match_score > Scale
      good_availability == top_candidate.availability_score > Pct(70)
      clear_winner == Len(all_candidates) > 1
                      /\ top_candidate.final_score - all_candidates[2].final_score > 15 * Scale
      B(f) == IF f THEN 1 ELSE 0
  IN ((B(high_similarity) + B(strong_skills) + B(good_availability) + B(clear_winner)) * Scale) \div 4

\* variant: clear_winner is the lead of the first-ranked over the second
_calculate_confidence_ranked_lead(top_candidate, all_candidates) ==
  LET high_similarity == top_candidate.similarity_score > Pct(70)
      strong_skills == 2 * top_candidate.skill_match_score > Scale
      good_availability == top_candidate.availability_score > Pct(70)
      clear_winner == Len(all_candidates) > 1
                      /\ all_candidates[1].final_score - all_candidates[2].final_score > 15 * Scale
      timezone_match == top_candidate.timezone_score >= Scale
      B(f) == IF f THEN 1 ELSE 0
  IN ((B(high_similarity) + B(strong_skills) + B(good_availability) + B(clear_winner)
       + B(timezone_match)) * Scale) \div 5

\* number of true confidence factors, as a score: sum(factors) / 5
_calculate_confidence(top_candidate, all_candidates) ==
  LET high_similarity == top_candidate.similarity_score > Pct(70)
      strong_skills == 2 * top_candidate.skill_match_score > Scale
      good_availability == top_candidate.availability_score > Pct(70)
      clear_winner == Len(all_candidates) > 1
                      /\ top_candidate.final_score - all_candidates[2].final_score > 15 * Scale
      timezone_match == top_candidate.timezone_score >= Scale
      B(f) == IF f THEN 1 ELSE 0
  IN ((B(high_similarity) + B(strong_skills) + B(good_availability) + B(clear_winner)
       + B(timezone_match)) * Scale) \div 5

\* ---------------------------------------------------------- business rules
\* the candidate Rule 1 leaves as top_candidate; Rule1Available is its list
Rule1Fires(candidates) ==
  candidates[1].is_overloaded \/ candidates[1].workload_score < Pct(30)

\* variant: the replacement needs no workload_score of 0.5
Rule1Available_any_workload(candidates) ==
  SelectSeq(candidates, LAMBDA c : ~c.is_overloaded /\ c.availability_score > 0)

Rule1Available(candidates) ==
  SelectSeq(candidates, LAMBDA c : ~c.is_overloaded /\ c.availability_score > 0
                                   /\ c.workload_score >= Pct(50))

Rule1Top(candidates) ==
  IF Rule1Fires(candidates) /\ Rule1Available(candidates) # <<>>
  THEN Rule1Available(candidates)[1]
  ELSE candidates[1]

\* Rule 2: timezone mismatch for an expert
Rule2Fires(top_candidate, preferred_tz) ==
  ~_check_timezone_match(top_candidate, preferred_tz) /\ top_candidate.similarity_score > Pct(70)

Rule2InTz(candidates, preferred_tz) ==
  SelectSeq(candidates, LAMBDA c : _check_timezone_match(c, preferred_tz))

\* variant: the in-zone candidate is taken whatever the score difference
Rule2Top_always_in_zone(top_candidate, candidates, preferred_tz) ==
  LET in_tz_candidates == Rule2InTz(candidates, preferred_tz)
  IN IF Rule2Fires(top_candidate, preferred_tz) /\ in_tz_candidates # <<>>
     THEN in_tz_candidates[1]
     ELSE top_candidate

Rule2Top(top_candidate, candidates, preferred_tz) ==
  LET in_tz_candidates == Rule2InTz(candidates, preferred_tz)
      best_in_tz == in_tz_candidates[1]
      score_diff == top_candidate.final_score - best_in_tz.final_score
  IN IF Rule2Fires(top_candidate, preferred_tz) /\ in_tz_candidates # <<>>
     THEN (IF score_diff > 30 * Scale THEN top_candidate ELSE best_in_tz)
     ELSE top_candidate

\* Rule 3: fair distribution over candidates[1:5]
Rule3Fires(top_candidate) == top_candidate.recent_assignments_count >= 5

\* variant: the scan starts one position late, candidates[2:5]
Rule3LessLoaded_from_third(candidates) ==
  SelectSeq(SubSeq(candidates, 3, Min(5, Len(candidates))),
            LAMBDA c : c.recent_assignments_count < 5 /\ c.availability_score > 0)

Rule3LessLoaded(candidates) ==
  SelectSeq(SubSeq(candidates, 2, Min(5, Len(candidates))),
            LAMBDA c : c.recent_assignments_count < 5 /\ c.availability_score > 0)

Rule3Top(top_candidate, candidates) ==
  IF Rule3Fires(top_candidate) /\ Rule3LessLoaded(candidates) # <<>>
  THEN Rule3LessLoaded(candidates)[1]
  ELSE top_candidate

\* the decision the rules leave, given the top candidate after Rule 1 (top1),
\* after Rule 2 (top2), after Rule 3 (top_candidate) and its confidence
RulesDecision(ticket_details, candidates, now, preferred_tz, top1, top2, top_candidate, confidence) ==
  LET decision == AssignmentDecision("normal", DictGet(ticket_details, "ticket_id", None), candidates, now)
      r1 == Rule1Fires(candidates)
      r2 == Rule2Fires(top1, preferred_tz)
      r2_in_tz == Rule2InTz(candidates, preferred_tz) # <<>>
      r3 == Rule3Fires(top2)
      r4 == top_candidate.skill_match_score < Pct(25)
      notify == confidence >= Pct(30) /\ confidence < Pct(50)
      rules == decision.business_rules_applied
               \o (IF r1 THEN <<"overload_prevention">> ELSE <<>>)
               \o (IF r2 THEN <<"timezone_vs_expertise">> ELSE <<>>)
               \o (IF r3 THEN <<"fair_distribution">> ELSE <<>>)
               \o (IF r4 THEN <<"skills_gap_detected">> ELSE <<>>)
               \o (IF notify THEN <<"team_lead_notification">> ELSE <<>>)
      reasoning == decision.reasoning
               \o (IF r1 THEN <<"Top choice is overloaded">> ELSE <<>>)
               \o (IF r2 /\ r2_in_tz
                   THEN (IF top1.final_score - Rule2InTz(candidates, preferred_tz)[1].final_score > 30 * Scale
                         THEN <<"Cross-timezone assignment">>
                         ELSE <<"Preferred in-timezone member with comparable skills">>)
                   ELSE <<>>)
               \o (IF r3 /\ Rule3LessLoaded(candidates) # <<>> THEN <<"Fair distribution">> ELSE <<>>)
               \o (IF r4 THEN <<"Skills gap detected">> ELSE <<>>)
               \o (IF notify THEN <<"Medium confidence assignment - team lead notified">> ELSE <<>>)
               \o <<"Assigned">>
  IN IF r1 /\ Rule1Available(candidates) = <<>> THEN
       _trigger_human_review(ticket_details, "team_at_capacity", "critical", now)
     ELSE IF confidence < Pct(30) THEN
       _trigger_human_review(ticket_details, "low_confidence_assignment", "medium", now)
     ELSE
       [decision EXCEPT !.confidence_score = confidence,
                        !.business_rules_applied = rules,
                        !.reasoning = reasoning,
                        !.assignment_type = IF decision.collaboration_needed THEN "collaborative" ELSE "normal",
                        !.primary_assignee = top_candidate.member_email]

\* Rules 1, 2, 3 in turn, each working on the top candidate the one before left
_apply_business_rules(ticket_details, candidates, similar_tickets, now) ==
  LET preferred_tz == _get_preferred_timezone(now)
      Rule7(top1, top2, top_candidate) ==
        RulesDecision(ticket_details, candidates, now, preferred_tz, top1, top2, top_candidate,
                      _calculate_confidence(top_candidate, candidates))
      Rule3(top1, top2) == Rule7(top1, top2, Rule3Top(top2, candidates))
      Rule2(top1) == Rule3(top1, Rule2Top(top1, candidates, preferred_tz))
  IN Rule2(Rule1Top(candidates))

\* ------------------------------------------------------------ state dict
\* round(x, digits) of a value in units of 1/unit_per_one to 10^-digits
RoundTo(x, per_digit) == (x + per_digit \div 2) \div per_digit

_decision_to_dict(decision) ==
  LET Top(c) == [ email |-> c.member_email,
                  score |-> RoundTo(c.final_score, FinalOne \div 1000),
                  breakdown |-> [ similarity |-> RoundTo(c.similarity_score, Scale \div 100),
                                  skill |-> RoundTo(c.skill_match_score, Scale \div 100),
                                  availability |-> RoundTo(c.availability_score, Scale \div 100),
                                  workload |-> RoundTo(c.workload_score, Scale \div 100),
                                  timezone |-> RoundTo(c.timezone_score, Scale \div 100) ] ]
  IN [ assignment_type |-> decision.assignment_type,
       primary_assignee |-> decision.primary_assignee,
       secondary_assignee |-> decision.secondary_assignee,
       confidence_score |-> decision.confidence_score,
       reasoning |-> decision.reasoning,
       business_rules_applied |-> decision.business_rules_applied,
       human_review_triggers |-> decision.human_review_triggers,
       assigned_at |-> decision.assigned_at,
       candidates_count |-> Len(decision.all_candidates),
       top_3_candidates |-> SeqMap(Top, SubSeq(decision.all_candidates, 1,
                                                Min(3, Len(decision.all_candidates)))) ]

\* ------------------------------------------------------------ entry point
\* variant: max(..., default=1.0)
MaxSimilarity_default_one(similar_tickets) ==
  LET scores == {DictGet(similar_tickets[i], "similarity_score", 0) : i \in 1..Len(similar_tickets)}
  IN IF scores = {} THEN 100 ELSE CHOOSE m \in scores : \A x \in scores : x <= m

MaxSimilarity(similar_tickets) ==
  LET scores == {DictGet(similar_tickets[i], "similarity_score", 0) : i \in 1..Len(similar_tickets)}
  IN IF scores = {} THEN 0 ELSE CHOOSE m \in scores : \A x \in scores : x <= m

NoTrace == [skill_extractions |-> 0, member_fetches |-> 0, candidates_evaluated |-> 0,
            ranked |-> FALSE, rules_run |-> FALSE, candidates |-> <<>>, raised |-> "none",
            db_queries |-> 0, holiday_queries |-> 0, preferred_tz |-> None]

\* the decisions of the two early returns of assign_ticket
GateDecision(ticket_details, now) ==
  _trigger_human_review(ticket_details, "no_similar_pattern", "high", now)

\* variant: the empty team reported with the arguments of the similarity gate
EmptyTeamDecision_as_gate(ticket_details, now) ==
  _trigger_human_review(ticket_details, "no_similar_pattern", "high", now)

EmptyTeamDecision(ticket_details, now) ==
  _trigger_human_review(ticket_details, "no_available_members", "critical", now)

\* the decision assign_ticket returns, the state dict it leaves and what it
\* did; when an oracle call raises there is no decision and trace.raised
\* names the exception that leaves assign_ticket; trace.preferred_tz is what
\* _get_preferred_timezone returned to Rule 2, if the rules got that far
assign_ticket(engine_weights, ticket_details, similar_tickets, session_state, db, clk) ==
  LET Stored(candidates, decision) ==
        [ decision |-> decision,
          state |-> ("assignment_decision" :> _decision_to_dict(decision)) @@ session_state,
          trace |-> [ skill_extractions |-> 1, member_fetches |-> 1,
                      candidates_evaluated |-> Len(candidates), ranked |-> TRUE, rules_run |-> TRUE,
                      candidates |-> candidates, raised |-> "none",
                      db_queries |-> SessionExecutes(db), holiday_queries |-> HolidayExecutes(db),
                      preferred_tz |-> IF Rule1Fires(candidates) /\ Rule1Available(candidates) = <<>>
                                       THEN None
                                       ELSE _get_preferred_timezone(clk.rules) ] ]
      Ranked(candidates) ==
        Stored(candidates, _apply_business_rules(ticket_details, candidates, similar_tickets, clk.rules))
      Evaluated(candidates) ==
        IF candidates = <<>> THEN
          [ decision |-> EmptyTeamDecision(ticket_details, clk.eval),
            state |-> session_state,
            trace |-> [NoTrace EXCEPT !.skill_extractions = 1, !.member_fetches = 1,
                                      !.db_queries = SessionExecutes(db),
                                      !.holiday_queries = HolidayExecutes(db)] ]
        ELSE Ranked(SortCandidates(candidates))
  IN IF MaxSimilarity(similar_tickets) < SIMILARITY_THRESHOLD THEN
       [ decision |-> GateDecision(ticket_details, clk.fetch),
         state |-> session_state,
         trace |-> NoTrace ]
     ELSE IF db.fails = "skills" THEN
       \* extract_skills_from_ticket raises: nothing catches it
       [ decision |-> None,
         state |-> session_state,
         trace |-> [NoTrace EXCEPT !.skill_extractions = 1, !.raised = "skill_extractor_error"] ]
     ELSE IF db.fails = "db" THEN
       \* the member query raises inside _batch_fetch_member_data
       [ decision |-> None,
         state |-> session_state,
         trace |-> [NoTrace EXCEPT !.skill_extractions = 1, !.member_fetches = 1,
                                   !.db_queries = 1, !.raised = "database_error"] ]
     ELSE Evaluated(_evaluate_all_candidates(engine_weights, ticket_details, similar_tickets,
                                             DictGet(ticket_details, "priority", "Medium"), db, clk))

\* ------------------------------------------------------------ input sets
Rep(n, x) == [i \in 1..n |-> x]

TicketPriorities == {"Critical", "High", "Medium", "Low", "Urgent"}

\* ticket_details, with and without the priority key
Tickets ==
  {[ticket_id |-> "INC1", title |-> "S3 bucket access denied", priority |-> p] : p \in TicketPriorities}
  \cup {[ticket_id |-> "INC1", title |-> "S3 bucket access denied"]}

\* 08:00 (IST only), 13:00 (evening overlap), 20:00 (US only)
ClockHours == {480, 780, 1200}
Clocks == {[fetch |-> h, eval |-> h, eval_rest |-> h, rules |-> h] : h \in ClockHours}

Roster ==
  << [id |-> "m1", email |-> "alice@corp.example", timezone |-> "Asia/Kolkata", skills |-> <<"AWS", "S3">>],
     [id |-> "m2", email |-> "bob@corp.example", timezone |-> "America/New_York", skills |-> <<"aws">>],
     [id |-> "m3", email |-> "carol@corp.example", timezone |-> "Europe/London", skills |-> <<>>] >>

\* a Ticket row as the active-ticket query loads it: Priority.CRITICAL,
\* TicketStatus.IN_PROGRESS, created 10 days ago
StoredTicket == [priority |-> "1 - Critical", status |-> "in_progress", age_days |-> 10]

\* active ticket lists: none, 24 stored tickets (load 18), 40 (load 30)
ActiveTicketLists == { <<>>, Rep(24, StoredTicket), Rep(40, StoredTicket) }

\* what the oracle knows about one member today
Runtimes ==
  {[on_pto |-> FALSE, active_tickets |-> a, recent_assignments |-> 1] : a \in ActiveTicketLists}
  \cup {[on_pto |-> FALSE, active_tickets |-> <<>>, recent_assignments |-> 7],
        [on_pto |-> TRUE, active_tickets |-> <<>>, recent_assignments |-> 1]}

\* the runtimes drawn for a roster member: the third one is idle or on PTO
RuntimesOf(m) ==
  IF m.id = "m3" THEN {rt \in Runtimes : rt.active_tickets = <<>> /\ rt.recent_assignments = 1}
  ELSE Runtimes

\* the teams the member query can return: up to MaxMembers distinct roster
\* members, in roster order, each with a runtime
Teams ==
  UNION { UNION { { [i \in 1..n |-> [member |-> Roster[pick[i]]] @@ rt[i]] :
                      rt \in {f \in [1..n -> Runtimes] : \A i \in 1..n : f[i] \in RuntimesOf(Roster[pick[i]])} } :
                  pick \in {f \in [1..n -> 1..Len(Roster)] : \A i, j \in 1..n : i < j => f[i] < f[j]} } :
          n \in 0..Min(MaxMembers, Len(Roster)) }

\* no holiday, a regional one in India, a global one, both
HolidayCalendars ==
  { [India |-> FALSE, US |-> FALSE, GLOBAL |-> FALSE],
    [India |-> TRUE,  US |-> FALSE, GLOBAL |-> FALSE],
    [India |-> FALSE, US |-> FALSE, GLOBAL |-> TRUE],
    [India |-> TRUE,  US |-> FALSE, GLOBAL |-> TRUE] }

SkillRequirements ==
  { [critical_skills |-> <<"aws">>, important_skills |-> <<>>, nice_to_have |-> <<>>] }

\* which oracle call fails today: none, the skill extractor, the database
OracleFailures == {"none", "skills", "db"}

\* every oracle answers
Oracles ==
  { [members |-> t, holidays |-> h, skill_requirements |-> r, fails |-> "none"] :
      t \in Teams, h \in HolidayCalendars, r \in SkillRequirements }

\* similar tickets: one solved by a former member at 0.69 or at 0.70, up to
\* MaxSimilar solved by alice, one solved by bob, or one by each, at 0.95
SimilarLists ==
  { <<[similarity_score |-> s, assignee_email |-> "dave@corp.example"]>> : s \in {69, 70} }
  \cup { Rep(k, [similarity_score |-> 95, assignee_email |-> "alice@corp.example"]) : k \in 0..MaxSimilar }
  \cup { Rep(k, [similarity_score |-> 95, assignee_email |-> "alice@corp.example"])
         \o <<[similarity_score |-> 95, assignee_email |-> "bob@corp.example"]>> : k \in 0..1 }

\* ------------------------------------------------------ ingestion gateway
MaxRequests == 2

\* Settings.MAX_RETRIES, copied to TicketPublisher.max_retries
MAX_RETRIES == 3

ALLOWED_EVENT_TYPES ==
  {"incident.created", "incident.closed", "incident.resolved",
   "task.created", "task.closed", "task.resolved"}

SERVICENOW_WEBHOOK_SECRET == "servicenow-webhook-secret"

\* hmac.new(secret, body, sha256).hexdigest(): digests agree only for the
\* same secret and the same body
Hexdigest(secret, body) == secret \o "|" \o body

\* the payloads that pass ServiceNowPayload: any event_type string
Payloads ==
  {[event_type |-> e, ticket_id |-> "INC1"] :
     e \in ALLOWED_EVENT_TYPES \cup {"incident.reassigned", "task.reassigned"}}

\* the bytes of the request body
RawBody(payload) == payload.event_type \o "/" \o payload.ticket_id

\* X-ServiceNow-Signature: absent, empty, the digest under another secret,
\* the digest of another body, the digest of this body
SignatureHeaders(payload) ==
  {None, "",
   Hexdigest("another-secret", RawBody(payload)),
   Hexdigest(SERVICENOW_WEBHOOK_SECRET, "tampered"),
   Hexdigest(SERVICENOW_WEBHOOK_SECRET, RawBody(payload))}

\* TRUE when the function returns True, FALSE when it raises the 403
verify_hmac_signature(body, signature) ==
  IF signature = None \/ signature = "" THEN FALSE
  ELSE Hexdigest(SERVICENOW_WEBHOOK_SECRET, body) = signature

\* the status code of the response
receive_webhook(payload, raw_body, x_servicenow_signature) ==
  IF payload.event_type \notin ALLOWED_EVENT_TYPES THEN 400
  ELSE IF ~verify_hmac_signature(raw_body, x_servicenow_signature) THEN 403
  ELSE 202

\* what publisher.publish and future.result can do in one attempt
PublishOutcomes == {"message_id", "GoogleAPICallError", "TimeoutError"}

\* one call of publish_ticket: a single publish, its exception re-raised
publish_ticket(webhook_id, outcome) ==
  [webhook_id |-> webhook_id, attempts |-> 1, raised |-> outcome # "message_id"]

\* the service before any request
IdleGateway == [responses |-> <<>>, background_tasks |-> <<>>, publish_calls |-> <<>>,
                topic |-> <<>>, error_log |-> <<>>]

\* ----------------------------------------------------------- state machine
Init ==
  /\ weight_config = _load_weight_config
  /\ ticket \in Tickets
  /\ similar \in SimilarLists
  /\ oracle \in Oracles
  /\ clock \in Clocks
  /\ state = [session_id |-> "s1"]
  /\ decisions = <<>>
  /\ trace = NoTrace
  /\ gateway = IdleGateway

\* one call of assign_ticket(ticket_details, similar_tickets, state)
AssignTicket ==
  /\ Len(decisions) < MaxRuns
  /\ LET Return(r) == /\ decisions' = IF r.trace.raised = "none" THEN Append(decisions, r.decision)
                                       ELSE decisions
                      /\ state' = r.state
                      /\ trace' = r.trace
     IN Return(assign_ticket(weight_config, ticket, similar, state, oracle, clock))
  /\ UNCHANGED <<weight_config, ticket, similar, oracle, clock, gateway>>

Next == AssignTicket

Spec == Init /\ [][Next]_vars

\* one POST /webhook/servicenow, from the request to the response
ReceiveWebhook ==
  /\ Len(gateway.responses) < MaxRequests
  /\ \E payload \in Payloads : \E signature \in SignatureHeaders(payload) :
       LET Respond(webhook_id, status_code) ==
             gateway' = [gateway EXCEPT
               !.responses = Append(@, [webhook_id |-> webhook_id, payload |-> payload,
                                        signature |-> signature, status_code |-> status_code]),
               !.background_tasks = IF status_code = 202 THEN Append(@, webhook_id) ELSE @]
       IN Respond(Len(gateway.responses) + 1, receive_webhook(payload, RawBody(payload), signature))
  /\ UNCHANGED <<weight_config, ticket, similar, oracle, clock, state, decisions, trace>>

\* one run of process_webhook_background: publish_ticket once, an exception
\* logged and swallowed. A publish whose result timed out may still arrive.
ProcessWebhookBackground ==
  /\ gateway.background_tasks # <<>>
  /\ \E outcome \in PublishOutcomes : \E arrives \in BOOLEAN :
       /\ outcome = "message_id" => arrives
       /\ outcome = "GoogleAPICallError" => ~arrives
       /\ LET Done(call) ==
                gateway' = [gateway EXCEPT
                  !.background_tasks = Tail(@),
                  !.publish_calls = Append(@, call),
                  !.topic = IF arrives THEN Append(@, call.webhook_id) ELSE @,
                  !.error_log = IF call.raised THEN Append(@, call.webhook_id) ELSE @]
          IN Done(publish_ticket(Head(gateway.background_tasks), outcome))
  /\ UNCHANGED <<weight_config, ticket, similar, oracle, clock, state, decisions, trace>>

NextGateway == ReceiveWebhook \/ ProcessWebhookBackground

\* the gateway alone, beside an engine that is not called
InitGateway ==
  /\ weight_config = _load_weight_config
  /\ ticket = [ticket_id |-> "INC1", title |-> "S3 bucket access denied", priority |-> "Medium"]
  /\ similar = <<>>
  /\ oracle = [members |-> <<>>, holidays |-> [India |-> FALSE, US |-> FALSE, GLOBAL |-> FALSE],
               skill_requirements |-> [critical_skills |-> <<>>, important_skills |-> <<>>,
                                       nice_to_have |-> <<>>],
               fails |-> "none"]
  /\ clock = [fetch |-> IST_START_UTC, eval |-> IST_START_UTC, eval_rest |-> IST_START_UTC,
              rules |-> IST_START_UTC]
  /\ state = [session_id |-> "s1"]
  /\ decisions = <<>>
  /\ trace = NoTrace
  /\ gateway = IdleGateway

SpecGateway == InitGateway /\ [][NextGateway]_vars

\* ------------------------------------------------- inputs at the edges
\* the priority labels of the Priority enum, as tickets carry them on the wire
WirePriorities == {"1 - Critical", "2 - High", "3 - Medium", "4 - Low", "5 - Planning"}

EdgeTickets ==
  {[ticket_id |-> "INC1", title |-> "S3 bucket access denied", priority |-> p] :
     p \in WirePriorities \cup {"Critical", "Medium"}}

\* alice, bob, erin who differs from bob in id and email only, and carol
EdgeRoster ==
  << Roster[1], Roster[2],
     [id |-> "m5", email |-> "erin@corp.example", timezone |-> "America/New_York", skills |-> <<"aws">>],
     Roster[3] >>

\* idle, or with 10 stored tickets
EdgeRuntimes ==
  {[on_pto |-> FALSE, active_tickets |-> a, recent_assignments |-> 1] : a \in {<<>>, Rep(10, StoredTicket)}}

\* one or two distinct members of EdgeRoster, in either order
EdgeTeams ==
  { <<[member |-> EdgeRoster[i]] @@ rt>> : i \in 1..Len(EdgeRoster), rt \in EdgeRuntimes }
  \cup { <<[member |-> EdgeRoster[p[1]]] @@ rt1, [member |-> EdgeRoster[p[2]]] @@ rt2>> :
           p \in {q \in (1..Len(EdgeRoster)) \X (1..Len(EdgeRoster)) : q[1] # q[2]},
           rt1 \in EdgeRuntimes, rt2 \in EdgeRuntimes }

\* the minutes around the two ends of the IST window
EdgeClocks == {[fetch |-> h, eval |-> h, eval_rest |-> h, rules |-> h] :
                 h \in {IST_START_UTC - 1, IST_START_UTC, IST_END_UTC - 1, IST_END_UTC}}

\* the extractor's answer in the directory's casing or in its own
EdgeSkillRequirements ==
  SkillRequirements
    \cup { [critical_skills |-> <<"AWS">>, important_skills |-> <<"S3">>, nice_to_have |-> <<" aws ">>] }

EdgeOracles ==
  { [members |-> t, holidays |-> h, skill_requirements |-> r, fails |-> f] :
      t \in EdgeTeams,
      h \in {c \in HolidayCalendars : ~c.India},
      r \in EdgeSkillRequirements,
      f \in OracleFailures }

EdgeSimilarLists ==
  { <<[similarity_score |-> 70, assignee_email |-> "dave@corp.example"]>>,
    <<[similarity_score |-> 95, assignee_email |-> "alice@corp.example"]>> }

InitEdge ==
  /\ weight_config = _load_weight_config
  /\ ticket \in EdgeTickets
  /\ similar \in EdgeSimilarLists
  /\ oracle \in EdgeOracles
  /\ clock \in EdgeClocks
  /\ state = [session_id |-> "s1"]
  /\ decisions = <<>>
  /\ trace = NoTrace
  /\ gateway = IdleGateway

SpecEdge == InitEdge /\ [][Next]_vars

\* ------------------------------------- a wall clock that moves in a call
\* the readings of one call, taken in the order fetch, first candidate,
\* later candidates, rules, while the clock passes 02:30 or 12:00 UTC or
\* stays on one side of it
MovingClocks ==
  { c \in UNION { [{"fetch", "eval", "eval_rest", "rules"} -> {m - 1, m}] :
                    m \in {IST_START_UTC, EVENING_OVERLAP_START_UTC} } :
      c.fetch <= c.eval /\ c.eval <= c.eval_rest /\ c.eval_rest <= c.rules }

MovingOracles ==
  { [members |-> t, holidays |-> [India |-> FALSE, US |-> FALSE, GLOBAL |-> FALSE],
     skill_requirements |-> r, fails |-> "none"] :
      t \in EdgeTeams, r \in SkillRequirements }

InitClock ==
  /\ weight_config = _load_weight_config
  /\ ticket \in {t \in EdgeTickets : t.priority \in {"Critical", "Medium"}}
  /\ similar \in EdgeSimilarLists
  /\ oracle \in MovingOracles
  /\ clock \in MovingClocks
  /\ state = [session_id |-> "s1"]
  /\ decisions = <<>>
  /\ trace = NoTrace
  /\ gateway = IdleGateway

SpecClock == InitClock /\ [][Next]_vars

\* ------------------------------------------------------- claim vocabulary
KnownPriorities == {"Critical", "High", "Medium", "Low"}

Returned == Len(decisions) > 0
Runs == 1..Len(decisions)
LastDecision == decisions[Len(decisions)]

\* every similar ticket scores below the threshold (vacuously for none)
GateFails == \A i \in 1..Len(similar) : similar[i].similarity_score < 70
GatePasses == \E i \in 1..Len(similar) : similar[i].similarity_score >= 70

EmailsOf(cs) == {cs[i].member_email : i \in 1..Len(cs)}

\* the candidate a decision names as primary assignee
PrimaryOf(d) == CHOOSE c \in Range(d.all_candidates) : c.member_email = d.primary_assignee

IsNormal(d) == d.assignment_type = "normal"

HasTrigger(d, reason) ==
  Len(d.human_review_triggers) = 1 /\ d.human_review_triggers[1].reason = reason

\* C1: every normal decision's primary assignee has workload_score >= 0.3,
\* whichever of the rules R1, R2, R3 chose that candidate.
C1_OverloadSafety ==
  \A i \in Runs : IsNormal(decisions[i]) => PrimaryOf(decisions[i]).workload_score >= Pct(30)

\* C2 as stated: in a normal decision, if one of the first five ranked
\* candidates has fewer than 5 recent assignments, so has the primary.
C2_FairnessCapFirstFive ==
  \A i \in Runs :
    LET d == decisions[i]
        cs == d.all_candidates
    IN (IsNormal(d) /\ \E k \in 1..Min(5, Len(cs)) : cs[k].recent_assignments_count < 5)
       => PrimaryOf(d).recent_assignments_count < 5

\* C2 amended: in a normal decision, if a candidate at positions 2..5 of the
\* ranked list has fewer than 5 recent assignments and availability_score > 0,
\* then the primary assignee has fewer than 5 recent assignments.
C2_FairnessCapAvailable ==
  \A i \in Runs :
    LET d == decisions[i]
        cs == d.all_candidates
    IN (IsNormal(d) /\ \E k \in 2..Min(5, Len(cs)) :
                          cs[k].recent_assignments_count < 5 /\ cs[k].availability_score > 0)
       => PrimaryOf(d).recent_assignments_count < 5

\* R3 replaced a rank-1 candidate with 5 or more recent assignments
C2_Witness ==
  /\ Returned /\ IsNormal(LastDecision)
  /\ LastDecision.all_candidates[1].recent_assignments_count >= 5
  /\ LastDecision.primary_assignee # LastDecision.all_candidates[1].member_email
  /\ PrimaryOf(LastDecision).recent_assignments_count < 5
  /\ LastDecision.business_rules_applied = <<"fair_distribution">>

\* C3: when every similar ticket scores below 0.70 (or there is none), the
\* call returns human_review without a primary, with the single trigger
\* no_similar_pattern / high / team_consultation_email / 1 hour, and it has
\* extracted no skills, fetched no members and evaluated no candidate.
C3_SimilarityGate ==
  (Returned /\ GateFails) =>
    /\ \A i \in Runs :
         /\ decisions[i].assignment_type = "human_review"
         /\ decisions[i].primary_assignee = None
         /\ Len(decisions[i].human_review_triggers) = 1
         /\ LET t == decisions[i].human_review_triggers[1]
            IN /\ t.reason = "no_similar_pattern"
               /\ t.severity = "high"
               /\ t.action = "team_consultation_email"
               /\ t.timeout = "1 hour"
    /\ trace.skill_extractions = 0
    /\ trace.member_fetches = 0
    /\ trace.candidates_evaluated = 0

\* the gate closed on a non-empty list although members were on the team
C3_Witness ==
  /\ Returned /\ GateFails /\ similar # <<>> /\ oracle.members # <<>>
  /\ HasTrigger(LastDecision, "no_similar_pattern")

\* C4: every returned decision is either normal/collaborative with the email
\* of an evaluated candidate as primary and no trigger, or human_review /
\* escalation with no primary and exactly one trigger.
C4_DecisionShape ==
  \A i \in Runs :
    LET d == decisions[i]
    IN \/ /\ d.assignment_type \in {"normal", "collaborative"}
          /\ d.primary_assignee # None
          /\ d.primary_assignee \in {oracle.members[k].member.email : k \in 1..Len(oracle.members)}
          /\ d.human_review_triggers = <<>>
       \/ /\ d.assignment_type \in {"human_review", "escalation"}
          /\ d.primary_assignee = None
          /\ Len(d.human_review_triggers) = 1

\* a call that ranked candidates and then returned the low-confidence review
C4_Witness ==
  /\ Returned /\ trace.rules_run
  /\ HasTrigger(LastDecision, "low_confidence_assignment")
  /\ LastDecision.primary_assignee = None

\* C5: gate passed, every operator on a global holiday, none on PTO, ticket
\* Low or Medium: the call returns human_review / no_available_members.
C5_GlobalHolidayLowPriority ==
  (/\ Returned /\ GatePasses
   /\ oracle.holidays.GLOBAL
   /\ \A k \in 1..Len(oracle.members) : ~oracle.members[k].on_pto
   /\ "priority" \in DOMAIN ticket /\ ticket.priority \in {"Low", "Medium"})
  => \A i \in Runs :
       /\ decisions[i].assignment_type = "human_review"
       /\ HasTrigger(decisions[i], "no_available_members")
       /\ decisions[i].primary_assignee = None

\* C6: gate passed and the member query returned nobody: human_review,
\* no_available_members, critical, immediate_manager_escalation, no primary,
\* and neither ranking nor the business rules ran.
C6_EmptyCandidateSet ==
  (Returned /\ GatePasses /\ oracle.members = <<>>) =>
    /\ \A i \in Runs :
         /\ decisions[i].assignment_type = "human_review"
         /\ decisions[i].primary_assignee = None
         /\ Len(decisions[i].human_review_triggers) = 1
         /\ LET t == decisions[i].human_review_triggers[1]
            IN /\ t.reason = "no_available_members"
               /\ t.severity = "critical"
               /\ t.action = "immediate_manager_escalation"
    /\ ~trace.ranked
    /\ ~trace.rules_run

C6_Witness ==
  /\ Returned /\ GatePasses /\ oracle.members = <<>>
  /\ HasTrigger(LastDecision, "no_available_members")

\* the fields of a decision two runs are compared on
Observable(d) ==
  <<d.assignment_type, d.primary_assignee, d.confidence_score,
    d.business_rules_applied, d.human_review_triggers>>

MemberOf(c) ==
  CHOOSE m \in Range(oracle.members) : m.member.email = c.member_email

RegionalHolidayOf(m) ==
  IF m.member.timezone = "Asia/Kolkata" THEN oracle.holidays.India ELSE oracle.holidays.US

\* the availability table of the claim
AvailabilityTable(on_pto, regional, global, priority) ==
  CASE on_pto -> 0
    [] ~on_pto /\ regional -> 0
    [] ~on_pto /\ ~regional /\ global /\ priority = "Critical" -> Pct(50)
    [] ~on_pto /\ ~regional /\ global /\ priority = "High" -> Pct(30)
    [] ~on_pto /\ ~regional /\ global /\ priority \in {"Medium", "Low"} -> 0
    [] ~on_pto /\ ~regional /\ ~global -> Scale

SubScores(c) ==
  <<c.similarity_score, c.skill_match_score, c.availability_score, c.workload_score, c.timezone_score>>

\* C9: each priority's five weights sum to 1.0, each candidate's sub-scores
\* lie in [0,1], final_score is the weighted sum under the ticket's priority
\* row, and final_score lies in [0,1].
C9_WeightedSum ==
  /\ \A p \in KnownPriorities :
       weight_config[p].similarity + weight_config[p].skill + weight_config[p].availability
       + weight_config[p].workload + weight_config[p].timezone = 100
  /\ \A k \in 1..Len(trace.candidates) :
       LET c == trace.candidates[k]
       IN /\ \A j \in 1..5 : SubScores(c)[j] >= 0 /\ SubScores(c)[j] <= Scale
          /\ c.final_score >= 0 /\ c.final_score <= FinalOne
          /\ ("priority" \in DOMAIN ticket /\ ticket.priority \in KnownPriorities) =>
               LET w == weight_config[ticket.priority]
               IN c.final_score = c.similarity_score * w.similarity + c.skill_match_score * w.skill
                                  + c.availability_score * w.availability
                                  + c.workload_score * w.workload + c.timezone_score * w.timezone

\* a Critical ticket with a candidate whose five sub-scores are all positive
\* and not all 1.0
C9_Witness ==
  /\ Returned /\ "priority" \in DOMAIN ticket /\ ticket.priority = "Critical"
  /\ \E k \in 1..Len(trace.candidates) :
       /\ \A j \in 1..5 : SubScores(trace.candidates[k])[j] > 0
       /\ trace.candidates[k].workload_score < Scale
       /\ trace.candidates[k].final_score < FinalOne

\* the ticket of the calls with its priority set to Medium
TicketAsMedium == ("priority" :> "Medium") @@ ticket

UnknownPriority == "priority" \notin DOMAIN ticket \/ ticket.priority \notin KnownPriorities

Canonical(p) ==
  CASE p = "1 - Critical" -> "Critical"
    [] p = "2 - High" -> "High"
    [] p = "3 - Medium" -> "Medium"
    [] p = "4 - Low" -> "Low"
    [] p = "5 - Planning" -> "Low"
    [] OTHER -> p

\* C11: a ticket carrying a wire label is scored as its canonical priority:
\* final_score uses that priority's weight row, the global-holiday override
\* is that priority's, Critical/High get the strict timezone scores (never
\* 0.5 or 0.4), and every active ticket stored as "1 - Critical" weighs at
\* least 3.0 * 1.0 * 0.3 in the member's workload.
C11_PriorityCanonicalisation ==
  ("priority" \in DOMAIN ticket /\ ticket.priority \in WirePriorities) =>
    \A k \in 1..Len(trace.candidates) :
      LET c == trace.candidates[k]
          m == MemberOf(c)
          p == Canonical(ticket.priority)
          w == weight_config[p]
      IN /\ c.final_score = c.similarity_score * w.similarity + c.skill_match_score * w.skill
                            + c.availability_score * w.availability
                            + c.workload_score * w.workload + c.timezone_score * w.timezone
         /\ c.availability_score =
              AvailabilityTable(m.on_pto, RegionalHolidayOf(m), oracle.holidays.GLOBAL, p)
         /\ (p \in {"Critical", "High"}) => c.timezone_score \notin {Pct(50), Pct(40)}
         /\ (\A i \in 1..Len(m.active_tickets) : m.active_tickets[i].priority = "1 - Critical")
              => c.weighted_workload >= 30 * 10 * 3 * Len(m.active_tickets)

\* C12: whenever a call reached the ranking step, whatever decision it
\* returned, the emails of the top-3 list _decision_to_dict stored for it
\* are the emails of the first three (or fewer) ranked candidates, in order.
C12_TopThreeRoundTrip ==
  (Returned /\ trace.ranked) =>
    /\ "assignment_decision" \in DOMAIN state
    /\ LET top == state.assignment_decision.top_3_candidates
           first == SubSeq(trace.candidates, 1, Min(3, Len(trace.candidates)))
       IN [i \in 1..Len(top) |-> top[i].email] = [i \in 1..Len(first) |-> first[i].member_email]

\* an oracle call failed during the last call of assign_ticket
OracleFailed == oracle.fails # "none" /\ trace.skill_extractions > 0

\* C13: when the skill extractor or a database query fails during a call,
\* the call raises nothing and returns a decision without assignee whose
\* trigger has reason oracle_unavailable and severity critical.
C13_OracleUnavailable ==
  OracleFailed =>
    /\ trace.raised = "none"
    /\ Returned
    /\ LastDecision.primary_assignee = None
    /\ \E i \in 1..Len(LastDecision.human_review_triggers) :
         /\ LastDecision.human_review_triggers[i].reason = "oracle_unavailable"
         /\ LastDecision.human_review_triggers[i].severity = "critical"

\* the regions _batch_fetch_member_data derives for the members of the team
RegionsOf(members) ==
  { IF StrContains(members[i].member.timezone, "Asia/") THEN "India" ELSE "US" :
      i \in 1..Len(members) }

\* C14: a call issues at most the four batch queries plus one holiday
\* lookup for each (region, date) it needs, however many members the team
\* has.
C14_BatchedFetch ==
  /\ trace.db_queries <= 4 + Cardinality(RegionsOf(oracle.members))
  /\ trace.holiday_queries <= Cardinality(RegionsOf(oracle.members))

\* the background tasks queued and the publisher calls made for a webhook
HandedToPublisher(webhook_id) ==
  Len(SelectSeq(gateway.background_tasks, LAMBDA w : w = webhook_id))
  + Len(SelectSeq(gateway.publish_calls, LAMBDA c : c.webhook_id = webhook_id))

SignatureValid(r) == r.signature = Hexdigest(SERVICENOW_WEBHOOK_SECRET, RawBody(r.payload))

\* C15: every response is 403 for a missing or wrong signature whatever the
\* event type, 400 for a valid signature with an event type outside the
\* accepted six, 202 for a valid signature with an accepted event type; the
\* event goes to the publisher once after a 202 and never after a 400 or 403.
C15_GatewayResponse ==
  \A i \in 1..Len(gateway.responses) :
    LET r == gateway.responses[i]
    IN /\ ~SignatureValid(r) => r.status_code = 403
       /\ (SignatureValid(r) /\ r.payload.event_type \notin ALLOWED_EVENT_TYPES) => r.status_code = 400
       /\ (SignatureValid(r) /\ r.payload.event_type \in ALLOWED_EVENT_TYPES) => r.status_code = 202
       /\ HandedToPublisher(r.webhook_id) = (IF r.status_code = 202 THEN 1 ELSE 0)

\* C16: an accepted event whose background task has run is on the topic
\* unless the publisher made at least MAX_RETRIES attempts for it and all
\* of them failed.
C16_AcceptedReachBus ==
  \A i \in 1..Len(gateway.publish_calls) :
    LET call == gateway.publish_calls[i]
    IN call.webhook_id \notin Range(gateway.topic) => call.attempts >= MAX_RETRIES

\* the operators' emails in lexicographic order, and the place of one
EmailsInOrder ==
  <<"alice@corp.example", "bob@corp.example", "carol@corp.example", "erin@corp.example">>

EmailPlace(email) == CHOOSE i \in 1..Len(EmailsInOrder) : EmailsInOrder[i] = email

\* a sorts strictly before b: higher final_score, then higher
\* availability_score, then higher skill_match_score, then smaller email
SortsBefore(a, b) ==
  \/ a.final_score > b.final_score
  \/ /\ a.final_score = b.final_score
     /\ \/ a.availability_score > b.availability_score
        \/ /\ a.availability_score = b.availability_score
           /\ \/ a.skill_match_score > b.skill_match_score
              \/ /\ a.skill_match_score = b.skill_match_score
                 /\ EmailPlace(a.member_email) < EmailPlace(b.member_email)

\* C17: the ranked list of a call is in the order of SortsBefore, whatever
\* order the member query returned the members in.
C17_RankingOrder ==
  trace.ranked =>
    \A k \in 1..(Len(trace.candidates) - 1) :
      SortsBefore(trace.candidates[k], trace.candidates[k + 1])

\* one ticket's load in thousandths by the workload table: the weight of
\* its canonical priority, the age penalty, the weight of its status
TableLoad(t) ==
  LET p == Canonical(t.priority)
      priority_weight == IF p = "Critical" THEN 30 ELSE IF p = "High" THEN 20
                         ELSE IF p = "Medium" THEN 10 ELSE 5
      age_penalty == IF t.age_days > 7 THEN 15 ELSE IF t.age_days > 3 THEN 12 ELSE 10
      status_weight == IF t.status \in {"Blocked", "Waiting", "blocked", "waiting"} THEN 3
                       ELSE IF t.status \in {"In Progress", "InProgress", "in_progress"} THEN 10
                       ELSE 5
  IN priority_weight * age_penalty * status_weight

\* C18: each candidate's total_load is the sum of the table loads of the
\* member's active tickets, workload_score is max(0, 1 - total_load/30),
\* is_overloaded holds exactly from total_load 24, and no active ticket
\* gives 1.0 and not overloaded; ten in-progress Critical tickets aged 10
\* days give score 0 and overloaded.
C18_WorkloadScore ==
  \A k \in 1..Len(trace.candidates) :
    LET c == trace.candidates[k]
        Holds(total_load) ==
          /\ c.weighted_workload = total_load
          /\ c.workload_score = Max(0, Scale - (total_load * (Scale \div 1000)) \div 30)
          /\ c.is_overloaded <=> (total_load >= 24 * 1000)
          /\ (total_load = 0) => (c.workload_score = Scale /\ ~c.is_overloaded)
    IN Holds(SumSeq(SeqMap(TableLoad, MemberOf(c).active_tickets)))

\* the ranked candidates Rule 1 may move to, by the rule's three conditions
EligibleForR1(cs) ==
  SelectSeq(cs, LAMBDA c : ~c.is_overloaded /\ c.availability_score > 0
                           /\ c.workload_score >= Pct(50))

\* the rank-1 candidate is overloaded or has workload_score below 0.3
TopOverloaded(cs) == cs[1].is_overloaded \/ cs[1].workload_score < Pct(30)

\* Rule 2 or Rule 3 left its tag on the decision
LaterRuleTagged(d) ==
  {"timezone_vs_expertise", "fair_distribution"} \cap Range(d.business_rules_applied) # {}

\* C19: when the rank-1 candidate is overloaded or below 0.3 and no ranked
\* candidate is eligible, the call returns no primary and a team_at_capacity
\* trigger of severity critical; when one is eligible, a normal decision is
\* tagged overload_prevention and, unless Rule 2 or 3 acted after it, its
\* primary is the first eligible candidate; when the rank-1 candidate is
\* neither, there is no tag, no team_at_capacity trigger and, unless Rule 2
\* or 3 acted, the primary of a normal decision is the rank-1 candidate.
C19_R1OverloadPrevention ==
  (Returned /\ trace.ranked) =>
    LET cs == trace.candidates
        d == LastDecision
        tagged == "overload_prevention" \in Range(d.business_rules_applied)
        at_capacity == \E i \in 1..Len(d.human_review_triggers) :
                          /\ d.human_review_triggers[i].reason = "team_at_capacity"
                          /\ d.human_review_triggers[i].severity = "critical"
    IN /\ (TopOverloaded(cs) /\ EligibleForR1(cs) = <<>>) =>
            (d.primary_assignee = None /\ at_capacity /\ ~IsNormal(d))
       /\ (TopOverloaded(cs) /\ EligibleForR1(cs) # <<>>) =>
            /\ ~HasTrigger(d, "team_at_capacity")
            /\ IsNormal(d) =>
                 /\ tagged
                 /\ ~LaterRuleTagged(d) => d.primary_assignee = EligibleForR1(cs)[1].member_email
       /\ ~TopOverloaded(cs) =>
            /\ ~tagged
            /\ ~HasTrigger(d, "team_at_capacity")
            /\ (IsNormal(d) /\ ~LaterRuleTagged(d)) => d.primary_assignee = cs[1].member_email

\* Rule 1 moved a normal decision from an overloaded rank-1 candidate to the
\* first eligible one further down
C19_Witness ==
  /\ Returned /\ trace.ranked
  /\ TopOverloaded(trace.candidates)
  /\ IsNormal(LastDecision)
  /\ ~LaterRuleTagged(LastDecision)
  /\ EligibleForR1(trace.candidates) # <<>>
  /\ LastDecision.primary_assignee = EligibleForR1(trace.candidates)[1].member_email
  /\ LastDecision.primary_assignee # trace.candidates[1].member_email

\* C20: the preferred zone Rule 2 works with is IST exactly when the clock
\* reads 02:30 or later and earlier than 14:30 UTC, and US otherwise; at
\* 14:30 it is US.
C20_PreferredZone ==
  trace.preferred_tz # None =>
    trace.preferred_tz = (IF 150 <= clock.rules /\ clock.rules < 870 THEN "IST" ELSE "US")

\* the current top Rule 1 leaves, by the rule's conditions
AfterR1(cs) ==
  IF TopOverloaded(cs) /\ EligibleForR1(cs) # <<>> THEN EligibleForR1(cs)[1] ELSE cs[1]

\* the candidate works in the zone: Asia/ for IST, America/ or US/ for US
InZone(c, zone) ==
  IF zone = "IST" THEN StrContains(c.timezone, "Asia/")
  ELSE StrContains(c.timezone, "America/") \/ StrContains(c.timezone, "US/")

ZoneCandidates(cs, zone) == SelectSeq(cs, LAMBDA c : InZone(c, zone))

\* Rule 2 has something to decide: an expert outside the zone, someone in it
R2Applies(cs, zone) ==
  /\ ~InZone(AfterR1(cs), zone)
  /\ AfterR1(cs).similarity_score > Pct(70)
  /\ ZoneCandidates(cs, zone) # <<>>

\* the current top Rule 2 leaves, by the rule's conditions
AfterR2(cs, zone) ==
  IF R2Applies(cs, zone)
       /\ AfterR1(cs).final_score - ZoneCandidates(cs, zone)[1].final_score <= 30 * Scale
  THEN ZoneCandidates(cs, zone)[1]
  ELSE AfterR1(cs)

\* C21: the primary of a normal decision on which Rule 3 left no tag is the
\* candidate Rule 2 leaves: the first in-zone candidate when the current top
\* is an expert (similarity above 0.7) outside the preferred zone whose
\* final_score leads by at most 0.30, and the current top in every other
\* case.
C21_R2TimezoneVsExpertise ==
  (Returned /\ trace.ranked /\ IsNormal(LastDecision)
     /\ "fair_distribution" \notin Range(LastDecision.business_rules_applied)) =>
    LastDecision.primary_assignee = AfterR2(trace.candidates, trace.preferred_tz).member_email

\* Rule 2 replaced an out-of-zone expert by the first in-zone candidate
C21_Witness ==
  /\ Returned /\ trace.ranked /\ IsNormal(LastDecision)
  /\ "fair_distribution" \notin Range(LastDecision.business_rules_applied)
  /\ R2Applies(trace.candidates, trace.preferred_tz)
  /\ LastDecision.primary_assignee = ZoneCandidates(trace.candidates, trace.preferred_tz)[1].member_email
  /\ LastDecision.primary_assignee # AfterR1(trace.candidates).member_email

\* the current top Rule 3 leaves, by the rule's conditions: a top with 5 or
\* more recent assignments gives way to the first available candidate of
\* ranks 2 to 5 that has fewer
AfterR3(cs, zone) ==
  LET fewer == SelectSeq(SubSeq(cs, 2, Min(5, Len(cs))),
                         LAMBDA c : c.recent_assignments_count < 5 /\ c.availability_score > 0)
  IN IF AfterR2(cs, zone).recent_assignments_count >= 5 /\ fewer # <<>>
     THEN fewer[1]
     ELSE AfterR2(cs, zone)

\* how many of the five confidence factors hold for the candidate
TrueFactors(c, cs) ==
  LET B(f) == IF f THEN 1 ELSE 0
  IN B(c.similarity_score > Pct(70))
     + B(2 * c.skill_match_score > Scale)
     + B(c.availability_score > Pct(70))
     + B(Len(cs) >= 2 /\ c.final_score - cs[2].final_score > 15 * Scale)
     + B(c.timezone_score >= Scale)

\* the rules ran to the confidence gate: Rule 1 did not escalate
ReachedGate ==
  /\ Returned /\ trace.ranked
  /\ ~(TopOverloaded(trace.candidates) /\ EligibleForR1(trace.candidates) = <<>>)

\* the confidence gate, given the current top and its count of true factors
GateOutcome(d, top, n) ==
  /\ n <= 1 =>
       /\ d.assignment_type = "human_review"
       /\ d.primary_assignee = None
       /\ Len(d.human_review_triggers) = 1
       /\ d.human_review_triggers[1].reason = "low_confidence_assignment"
       /\ d.human_review_triggers[1].severity = "medium"
       /\ d.human_review_triggers[1].action = "team_lead_review"
       /\ d.human_review_triggers[1].timeout = "15 minutes"
  /\ n = 2 =>
       /\ IsNormal(d)
       /\ "team_lead_notification" \in Range(d.business_rules_applied)
       /\ d.primary_assignee = top.member_email
  /\ n >= 3 =>
       /\ IsNormal(d)
       /\ "team_lead_notification" \notin Range(d.business_rules_applied)
       /\ d.primary_assignee = top.member_email

\* C22: once the rules reach the confidence gate, fewer than two true
\* factors for the current top give a human_review decision without primary
\* (low_confidence_assignment, medium, team_lead_review, 15 minutes), exactly
\* two give a normal decision tagged team_lead_notification that assigns the
\* current top, three or more a normal decision without that tag.
C22_ConfidenceGate ==
  ReachedGate =>
    LET Gate(top) == GateOutcome(LastDecision, top, TrueFactors(top, trace.candidates))
    IN Gate(AfterR3(trace.candidates, trace.preferred_tz))

\* a call was sent to team lead review by the gate; the team was not at capacity
C22_Witness ==
  /\ ReachedGate
  /\ TrueFactors(AfterR3(trace.candidates, trace.preferred_tz), trace.candidates) <= 1
  /\ LastDecision.assignment_type = "human_review"
  /\ LastDecision.human_review_triggers[1].action = "team_lead_review"

\* the five confidence factors of a candidate, in the order of the list
FactorsOf(c, cs) ==
  << c.similarity_score > Pct(70),
     2 * c.skill_match_score > Scale,
     c.availability_score > Pct(70),
     Len(cs) >= 2 /\ c.final_score - cs[2].final_score > 15 * Scale,
     c.timezone_score >= Scale >>

\* every factor true in fa is true in fb
FactorsImply(fa, fb) == \A i \in 1..5 : fa[i] => fb[i]

\* every factor true for a is true for b
FactorsWithin(a, b, cs) == FactorsImply(FactorsOf(a, cs), FactorsOf(b, cs))

\* C23: the confidence of every returned decision is one of 0, 0.2, 0.4,
\* 0.6, 0.8, 1.0; that of a normal decision is the number of true factors
\* of its primary divided by 5; and of two ranked candidates the one whose
\* true factors include the other's never gets the lower confidence.
C23_ConfidenceMean ==
  Returned =>
    /\ LastDecision.confidence_score \in {(k * Scale) \div 5 : k \in 0..5}
    /\ (trace.ranked /\ IsNormal(LastDecision)) =>
         5 * LastDecision.confidence_score
           = TrueFactors(PrimaryOf(LastDecision), trace.candidates) * Scale
    /\ \A i, j \in 1..Len(trace.candidates) :
         FactorsWithin(trace.candidates[i], trace.candidates[j], trace.candidates) =>
           _calculate_confidence(trace.candidates[i], trace.candidates)
             <= _calculate_confidence(trace.candidates[j], trace.candidates)

\* a normal decision with confidence 0.6 in a team where one candidate has
\* strictly more true factors than another
C23_Witness ==
  /\ Returned /\ trace.ranked /\ IsNormal(LastDecision)
  /\ 5 * LastDecision.confidence_score = 3 * Scale
  /\ \E i, j \in 1..Len(trace.candidates) :
       /\ FactorsWithin(trace.candidates[i], trace.candidates[j], trace.candidates)
       /\ ~FactorsWithin(trace.candidates[j], trace.candidates[i], trace.candidates)

\* ------------------------------------------------ timezone table (C24, C25)
\* the four windows by their claimed ends, in minutes of the UTC day
WindowNames == {"MORNING_OVERLAP", "IST_ONLY", "EVENING_OVERLAP", "US_ONLY"}

InWindow(w, h) ==
  CASE w = "MORNING_OVERLAP" -> 30 <= h /\ h < 150
    [] w = "IST_ONLY" -> 150 <= h /\ h < 720
    [] w = "EVENING_OVERLAP" -> 720 <= h /\ h < 870
    [] OTHER -> (870 <= h /\ h < 1440) \/ (0 <= h /\ h < 30)

WindowOf(h) == CHOOSE w \in WindowNames : InWindow(w, h)

\* the zone of a timezone name: Asia/ is IST, America/ and US/ are US
ZoneOf(tz) ==
  CASE tz = "Asia/Kolkata" -> "IST"
    [] tz \in {"America/New_York", "US/Pacific"} -> "US"
    [] OTHER -> "Other"

\* the published base score, in hundredths
TimezoneTable(w, zone) ==
  CASE w = "MORNING_OVERLAP" -> (CASE zone = "IST" -> 85 [] zone = "US" -> 100 [] OTHER -> 60)
    [] w = "IST_ONLY" -> (CASE zone = "IST" -> 100 [] zone = "US" -> 50 [] OTHER -> 40)
    [] w = "EVENING_OVERLAP" -> (CASE zone = "IST" -> 100 [] zone = "US" -> 85 [] OTHER -> 60)
    [] OTHER -> (CASE zone = "IST" -> 50 [] zone = "US" -> 100 [] OTHER -> 40)

\* the table value after the strict rule of Critical and High tickets
StrictTable(priority, w, zone) ==
  LET base == TimezoneTable(w, zone)
  IN IF priority \in {"Critical", "High"} /\ base = 50 THEN 30
     ELSE IF priority \in {"Critical", "High"} /\ base = 40 THEN 20
     ELSE base

\* how many of the similar tickets the member solved
SolvedBy(email) == Len(SelectSeq(similar, LAMBDA t : t.assignee_email = email))

ExpertiseTable(priority, solved, w, strict) ==
  IF solved < 3 THEN strict
  ELSE IF priority \in {"Medium", "Low"} THEN
    (IF w \in {"MORNING_OVERLAP", "EVENING_OVERLAP"} THEN (IF strict < 85 THEN 85 ELSE strict)
     ELSE IF strict < 75 THEN 40 ELSE strict)
  ELSE IF priority \in {"Critical", "High"} THEN
    (IF 30 <= strict /\ strict < 60 THEN 60 ELSE strict)
  ELSE strict

\* C25: the timezone score of every candidate is the table value after the
\* strict rule, adjusted when the member is the assignee of at least 3 of
\* the similar tickets (Medium/Low: at least 0.85 in an overlap window, 0.4
\* outside overlap when below 0.75; Critical/High: [0.3, 0.6) raised to
\* 0.6), and unadjusted for a member with fewer than 3.
C25_ExpertiseAdjustment ==
  \A i \in 1..Len(trace.candidates) :
    trace.candidates[i].timezone_score
      = Pct(ExpertiseTable(DictGet(ticket, "priority", None),
                           SolvedBy(trace.candidates[i].member_email),
                           WindowOf(clock.eval),
                           StrictTable(DictGet(ticket, "priority", None), WindowOf(clock.eval),
                                       ZoneOf(trace.candidates[i].timezone))))

\* -------------------------------------------------------- skill names (C26)
\* the requirements with every skill name lowercased and trimmed
Normalised(skill_requirements) ==
  [ critical_skills |-> SeqMap(LowerStrip, skill_requirements.critical_skills),
    important_skills |-> SeqMap(LowerStrip, skill_requirements.important_skills),
    nice_to_have |-> SeqMap(LowerStrip, skill_requirements.nice_to_have) ]

\* C26: a required skill counts as met whenever it equals a skill of the
\* member after lowercasing and trimming both, so the skill match score of
\* every candidate is the score for the same requirements in lowercase,
\* trimmed form, whatever casing the extractor delivered.
C26_SkillCaseInsensitive ==
  \A i \in 1..Len(trace.candidates) :
    trace.candidates[i].skill_match_score
      = _calculate_skill_match_score_cached(MemberOf(trace.candidates[i]).member,
                                            Normalised(oracle.skill_requirements))

\* C27: the primary assignee of every normal decision has an availability
\* score above 0: not on PTO, not on a regional holiday, and not on a global
\* holiday for a Medium or Low ticket.
C27_PrimaryAvailable ==
  (Returned /\ trace.ranked /\ IsNormal(LastDecision)) =>
    PrimaryOf(LastDecision).availability_score > 0

\* ------------------------------------------------- one clock reading (C28)
\* the zone Rule 2 prefers during a window
PreferredIn(w) == IF w \in {"IST_ONLY", "EVENING_OVERLAP"} THEN "IST" ELSE "US"

\* C28: all candidates of a call are scored under one timezone window, the
\* window of one clock reading of that call, and the zone Rule 2 preferred
\* is the one of that window.
C28_OneClockReading ==
  (Returned /\ trace.ranked) =>
    \E h \in {clock.fetch, clock.eval, clock.eval_rest, clock.rules} :
      /\ \A i \in 1..Len(trace.candidates) :
           trace.candidates[i].timezone_score
             = Pct(StrictTable(DictGet(ticket, "priority", None), WindowOf(h),
                               ZoneOf(trace.candidates[i].timezone)))
      /\ trace.preferred_tz \in {None, PreferredIn(WindowOf(h))}

\* C29: after every call that returned a decision the state holds, under
\* "assignment_decision", the dictionary form of exactly that decision,
\* whichever path returned it (similarity gate, empty team, capacity
\* escalation, low confidence, normal).
C29_StateHoldsDecision ==
  Returned =>
    /\ "assignment_decision" \in DOMAIN state
    /\ state["assignment_decision"] = _decision_to_dict(LastDecision)

\* ------------------------------------------------------ clear winner (C30)
\* how many of the four factors other than clear_winner hold for a candidate
OtherFactors(c) ==
  LET B(f) == IF f THEN 1 ELSE 0
  IN B(c.similarity_score > Pct(70)) + B(2 * c.skill_match_score > Scale)
     + B(c.availability_score > Pct(70)) + B(c.timezone_score >= Scale)

\* the confidence of the decision counts clear_winner for its primary
ClearWinnerCounted(d) == 5 * d.confidence_score = (OtherFactors(PrimaryOf(d)) + 1) * Scale

\* the primary is not the first of the ranked list
MovedDown(d, cs) == d.primary_assignee # cs[1].member_email

\* C30: in a normal decision clear_winner counts only if the primary is the
\* rank-1 candidate and its final_score exceeds every other candidate's by
\* more than 0.15; it never counts when a rule moved the choice to a
\* lower-ranked candidate.
C30_ClearWinner ==
  (Returned /\ trace.ranked /\ IsNormal(LastDecision)) =>
    /\ ClearWinnerCounted(LastDecision) =>
         /\ ~MovedDown(LastDecision, trace.candidates)
         /\ \A j \in 2..Len(trace.candidates) :
              trace.candidates[1].final_score - trace.candidates[j].final_score > 15 * Scale
    /\ MovedDown(LastDecision, trace.candidates) => ~ClearWinnerCounted(LastDecision)

\* a normal decision for the rank-1 candidate of two with clear_winner counted
C30_Witness ==
  /\ Returned /\ trace.ranked /\ IsNormal(LastDecision)
  /\ Len(trace.candidates) = 2
  /\ ~MovedDown(LastDecision, trace.candidates)
  /\ ClearWinnerCounted(LastDecision)
====
